---------------------------- MODULE Spec2Model ----------------------------
(***************************************************************************)
(* Model of src/app.py: the Streamlit script that loads the expert-profile *)
(* table from the warehouse (step 1) and then fills the Response column    *)
(* row by row with the LLM's consolidated summary (step 2).                *)
(*                                                                         *)
(* One execution of the script is a walk of pc                             *)
(*   "top"  -> line 153, before the step dispatch                          *)
(*   "resp" -> line 169, step 2 dispatch                                   *)
(*   "loop" -> line 136/137, at the row of 0-based label `index`           *)
(*   "llm"  -> line 102, blocked in bedrock_client.invoke_model            *)
(* and ends in "done" (loop ran to its end), "aborted" (the except of line *)
(* 146 caught a row's exception), "stopped" (the run was interrupted from  *)
(* outside) or "noload" (step 1 failed, step 2 not entered).               *)
(***************************************************************************)
EXTENDS Integers, Sequences, FiniteSets, TLC

VARIABLES
    step,           \* st.session_state.step
    df,             \* st.session_state.df (the session table)
    pc,             \* position of the script run
    index,          \* loop variable of get_the_response (0-based label)
    warehouse,      \* rows the fixed SQL query returns
    callLog,        \* LLM invocations of the current script run
    progressLog,    \* progress notifications of the current script run
    startResponse,  \* Response column when the current row loop began
    prevEnd,        \* how the previous row loop on this session table ended
    prevEmpty,      \* that previous row loop got an empty text from the LLM
    lost,           \* rows that held a summary when the process was stopped,
                    \* kept through the first script run after the restart
    sanPc, sanIn, sanOut   \* a stand-alone call of remove_tags_from_str

vars == <<step, df, pc, index, warehouse, callLog, progressLog,
          startResponse, prevEnd, prevEmpty, lost, sanPc, sanIn, sanOut>>

mainVars == <<step, df, pc, index, warehouse, callLog, progressLog,
              startResponse, prevEnd, prevEmpty, lost>>

sanVars == <<sanPc, sanIn, sanOut>>

---------------------------------------------------------------------------
(* Bounds *)

MaxRows == 3

MaxLen == 3

---------------------------------------------------------------------------
(* Cell values of the table: a Python str (a sequence of characters), None *)
(* or float NaN.                                                           *)

Str(s) == [kind |-> "str", s |-> s]

NoneValue == [kind |-> "None", s |-> <<>>]

NaN == [kind |-> "NaN", s |-> <<>>]

\* Python's `text == text`: false only for NaN.
SelfEqual(text) == text.kind # "NaN"

\* Position of the ">" closing a tag opened at s[1], 0 when there is none:
\* `.` does not match a newline, so a newline before the first ">" defeats
\* every match starting at s[1].
TagEnd(s) ==
    LET closers == {j \in 2..Len(s) : s[j] = ">"}
    IN  IF closers = {} THEN 0
        ELSE LET j == CHOOSE k \in closers : \A m \in closers : k <= m
             IN  IF \E m \in 2..(j - 1) : s[m] = "\n" THEN 0 ELSE j

\* re.compile(r'<.*?>').sub('', s): leftmost, non-greedy, non-overlapping.
RECURSIVE TagSub(_)
TagSub(s) ==
    IF s = <<>> THEN <<>>
    ELSE IF Head(s) = "<" /\ TagEnd(s) > 0
         THEN TagSub(SubSeq(s, TagEnd(s) + 1, Len(s)))
         ELSE <<Head(s)>> \o TagSub(Tail(s))

\* remove_tags_from_str: re.sub raises TypeError on anything but a str.
remove_tags_from_str(text) ==
    IF SelfEqual(text)
    THEN IF text.kind = "str"
         THEN [raised |-> FALSE, value |-> TagSub(text.s)]
         ELSE [raised |-> TRUE, value |-> <<>>]
    ELSE [raised |-> FALSE, value |-> <<>>]

\* PROMPT1.format(...): the template with its four placeholders filled.
PROMPT1(Pitch, Proposal_Answers, proposal, Contract_info) ==
    [PITCH |-> Pitch, PROPOSAL_ANSWERS_TEXT |-> Proposal_Answers,
     PROPOSAL_TEXT |-> proposal, CONTRACT_INFO_TEXT |-> Contract_info]

\* todo_row up to the LLM call: the four fields sanitized, the prompt built;
\* an exception of the sanitizer leaves todo_row.
todo_row(row) ==
    LET Pitch == remove_tags_from_str(row.PITCH)
        Proposal_Answers == remove_tags_from_str(row.PROPOSAL_ANSWERS_TEXT)
        Contract_info == remove_tags_from_str(row.CONTRACT_INFO_TEXT)
        proposal == remove_tags_from_str(row.PROPOSAL)
    IN  IF Pitch.raised \/ Proposal_Answers.raised
           \/ Contract_info.raised \/ proposal.raised
        THEN [raised |-> TRUE, prompt |-> PROMPT1(<<>>, <<>>, <<>>, <<>>)]
        ELSE [raised |-> FALSE,
              prompt |-> PROMPT1(Pitch.value, Proposal_Answers.value,
                                 proposal.value, Contract_info.value)]

---------------------------------------------------------------------------
(* Inputs *)

Rec(p, a, c, q) ==
    [PITCH |-> p, PROPOSAL_ANSWERS_TEXT |-> a,
     CONTRACT_INFO_TEXT |-> c, PROPOSAL |-> q]

\* Rows the warehouse may hold: a pitch with tags, a proposal answer with a
\* tag broken by a newline, and a row whose PROPOSAL_ANSWERS_TEXT is NULL
\* (None in the fetched frame).
Records ==
    { Rec(Str(<<"<", "b", ">", "p">>), NaN, Str(<<"c">>), Str(<<"q">>)),
      Rec(NaN, Str(<<"a", "<", "\n", ">">>), Str(<<"<", ">", "c">>), Str(<<>>)),
      Rec(Str(<<"p">>), NoneValue, Str(<<"c">>), Str(<<"q">>)) }

Tables == UNION {[1..n -> Records] : n \in 0..MaxRows}

\* Texts the model may return in content[0].text.
Texts == {"", "S1", "S2"}

Chars == {"<", ">", "a", "\n"}

SanInputs ==
    {NoneValue, NaN} \cup {Str(s) : s \in UNION {[1..n -> Chars] : n \in 0..MaxLen}}

---------------------------------------------------------------------------
(* Session state *)

NoTable == [present |-> FALSE, rows |-> <<>>, hasResponse |-> FALSE, Response |-> <<>>]

Loaded(t) == [present |-> TRUE, rows |-> t, hasResponse |-> FALSE, Response |-> <<>>]

total_number == Len(df.rows)

LoopEnded == {"done", "aborted", "stopped"}

Ended == LoopEnded \cup {"noload"}

InLoopRun == pc \in {"loop", "llm"} \cup LoopEnded

\* Mutant: the `df is not None` test of line 162 is missing.
LoadSucceeded_conn_only(conn, d) == conn

\* Lines 160 and 162: both the connection and the frame must be there.
LoadSucceeded(conn, d) == conn /\ d.present

\* Mutant: the skip test of line 137 is missing.
NeedsSummary_always(response) == TRUE

\* Mutant: the sentinel is taken as a reason to retry.
NeedsSummary_or_sentinel(response) == response \in {"", "NA"}

\* Line 137: the row still needs a summary.
NeedsSummary(response) == response = ""

\* Mutant: the label is reported without the + 1.
ProgressReport_label(i, total) == <<i, total>>

\* Lines 142-144: what the progress bar and the status line report for the
\* row of (0-based) label i.
ProgressReport(i, total) == <<i + 1, total>>

\* Mutant: a failed call leaves the row empty.
FailureResponse_empty == ""

\* Line 110: what generate_response returns when the call failed.
FailureResponse == "NA"

\* Mutant: the test of line 126 is missing, the column is always recreated.
EnsureResponse_reset(d) ==
    [d EXCEPT !.hasResponse = TRUE, !.Response = [r \in 1..Len(d.rows) |-> ""]]

\* Lines 126-127: the Response column is created empty when missing.
EnsureResponse(d) ==
    IF d.hasResponse THEN d
    ELSE [d EXCEPT !.hasResponse = TRUE, !.Response = [r \in 1..Len(d.rows) |-> ""]]

---------------------------------------------------------------------------
(* The script *)

Init ==
    /\ step = 1
    /\ df = NoTable
    /\ pc = "top"
    /\ index = 0
    /\ warehouse \in Tables
    /\ callLog = <<>>
    /\ progressLog = <<>>
    /\ startResponse = <<>>
    /\ prevEnd = "none"
    /\ prevEmpty = FALSE
    /\ lost = {}
    /\ sanPc = "idle"
    /\ sanIn = NaN
    /\ sanOut = [raised |-> FALSE, value |-> <<>>]

\* Lines 157-166 (and the failed dispatch of line 169): connect, query, and
\* on success store the frame and move to step 2.
LoadStep ==
    /\ pc = "top"
    /\ step = 1
    /\ \E conn \in BOOLEAN, d \in {NoTable, Loaded(warehouse)} :
          IF LoadSucceeded(conn, d)
          THEN /\ df' = d
               /\ step' = 2
               /\ pc' = "resp"
          ELSE /\ pc' = "noload"
               /\ UNCHANGED <<df, step>>
    /\ UNCHANGED <<index, warehouse, callLog, progressLog, startResponse,
                   prevEnd, prevEmpty, lost, sanVars>>

\* Line 157 false: a rerun in step 2 does not query again.
SkipLoad ==
    /\ pc = "top"
    /\ step = 2
    /\ pc' = "resp"
    /\ UNCHANGED <<step, df, index, warehouse, callLog, progressLog,
                   startResponse, prevEnd, prevEmpty, lost, sanVars>>

\* Lines 169-170 and 124-135: enter get_the_response, create the Response
\* column when missing; an empty frame leaves the loop at once.  A missing
\* frame raises inside the try and is caught at line 146.
get_the_response_begin ==
    /\ pc = "resp"
    /\ step = 2
    /\ IF df.present
       THEN /\ df' = EnsureResponse(df)
            /\ startResponse' = df'.Response
            /\ index' = 0
            /\ pc' = IF Len(df.rows) = 0 THEN "done" ELSE "loop"
       ELSE /\ pc' = "aborted"
            /\ UNCHANGED <<df, startResponse, index>>
    /\ UNCHANGED <<step, warehouse, callLog, progressLog, prevEnd, prevEmpty,
                   lost, sanVars>>

\* Lines 140-144, then the next iteration of line 136 or the end of the loop.
AfterRow ==
    /\ progressLog' = Append(progressLog, ProgressReport(index, total_number))
    /\ IF index + 1 < total_number
       THEN index' = index + 1 /\ pc' = "loop"
       ELSE index' = index /\ pc' = "done"

\* Line 137 false: the row already has a Response.
RowSkip ==
    /\ pc = "loop"
    /\ ~NeedsSummary(df.Response[index + 1])
    /\ AfterRow
    /\ UNCHANGED <<step, df, warehouse, callLog, startResponse, prevEnd,
                   prevEmpty, lost, sanVars>>

\* Lines 137-138, 114-118: todo_row raises before the LLM is called; the
\* exception leaves the for loop and is caught at line 146.
RowRaise ==
    /\ pc = "loop"
    /\ NeedsSummary(df.Response[index + 1])
    /\ todo_row(df.rows[index + 1]).raised
    /\ pc' = "aborted"
    /\ UNCHANGED <<step, df, index, warehouse, callLog, progressLog,
                   startResponse, prevEnd, prevEmpty, lost, sanVars>>

\* Lines 137-138, 114-119, 90-102: the prompt is built and sent.
RowInvoke ==
    /\ pc = "loop"
    /\ NeedsSummary(df.Response[index + 1])
    /\ ~todo_row(df.rows[index + 1]).raised
    /\ callLog' = Append(callLog, [row |-> index,
                                   prompt |-> todo_row(df.rows[index + 1]).prompt,
                                   status |-> "pending", text |-> ""])
    /\ pc' = "llm"
    /\ UNCHANGED <<step, df, index, warehouse, progressLog, startResponse,
                   prevEnd, prevEmpty, lost, sanVars>>

\* Mutant: the text is stored in the first row instead of the current one.
Store_first_row(status, text) ==
    /\ callLog' = [callLog EXCEPT ![Len(callLog)].status = status,
                                  ![Len(callLog)].text = text]
    /\ df' = [df EXCEPT !.Response[1] = text]
    /\ AfterRow
    /\ UNCHANGED <<step, warehouse, startResponse, prevEnd, prevEmpty,
                   lost, sanVars>>

\* What line 138 stores for the call in flight.
Store(status, text) ==
    /\ callLog' = [callLog EXCEPT ![Len(callLog)].status = status,
                                  ![Len(callLog)].text = text]
    /\ df' = [df EXCEPT !.Response[index + 1] = text]
    /\ AfterRow
    /\ UNCHANGED <<step, warehouse, startResponse, prevEnd, prevEmpty,
                   lost, sanVars>>

\* Lines 106-107, 120, 138: the model answered.
LLMReturn ==
    /\ pc = "llm"
    /\ \E t \in Texts : Store("ok", t)

\* Lines 108-110, 120, 138: the call or the parsing of its answer failed.
LLMFail ==
    /\ pc = "llm"
    /\ Store("failed", FailureResponse)

\* The script run is stopped from outside while in the row loop (between
\* two rows or while blocked in the LLM call); the frame keeps what was
\* written so far.
Stop ==
    /\ pc \in {"loop", "llm"}
    /\ pc' = "stopped"
    /\ UNCHANGED <<step, df, index, warehouse, callLog, progressLog,
                   startResponse, prevEnd, prevEmpty, lost, sanVars>>

\* The current script run received an empty text from the LLM.
GotEmptyText ==
    \E k \in 1..Len(callLog) : callLog[k].status = "ok" /\ callLog[k].text = ""

\* Streamlit runs the script again in the same session: session_state is
\* kept, line 153 finds 'step'.
Rerun ==
    /\ pc \in Ended
    /\ pc' = "top"
    /\ prevEnd' = IF pc \in LoopEnded THEN pc ELSE prevEnd
    /\ prevEmpty' = IF pc \in LoopEnded THEN GotEmptyText ELSE prevEmpty
    /\ callLog' = <<>>
    /\ progressLog' = <<>>
    /\ startResponse' = <<>>
    /\ index' = 0
    /\ lost' = IF pc \in LoopEnded THEN {} ELSE lost
    /\ UNCHANGED <<step, df, warehouse, sanVars>>

\* Rows of the session table that hold a non-empty Response.
Summarized ==
    IF df.hasResponse
    THEN {r \in 0..(Len(df.rows) - 1) : df.Response[r + 1] # ""}
    ELSE {}

\* The process is stopped and started again: session_state is new, lines
\* 153-154 set step to 1 and there is no frame.
ProcessRestart ==
    /\ df.present
    /\ lost' = lost \cup Summarized
    /\ step' = 1
    /\ df' = NoTable
    /\ pc' = "top"
    /\ index' = 0
    /\ callLog' = <<>>
    /\ progressLog' = <<>>
    /\ startResponse' = <<>>
    /\ prevEnd' = "none"
    /\ prevEmpty' = FALSE
    /\ UNCHANGED <<warehouse, sanVars>>

Next ==
    \/ LoadStep
    \/ SkipLoad
    \/ get_the_response_begin
    \/ RowSkip
    \/ RowRaise
    \/ RowInvoke
    \/ LLMReturn
    \/ LLMFail
    \/ Stop
    \/ Rerun
    \/ ProcessRestart

Spec == Init /\ [][Next]_vars

---------------------------------------------------------------------------
(* remove_tags_from_str on its own *)

SanInit ==
    /\ step = 1
    /\ df = NoTable
    /\ pc = "top"
    /\ index = 0
    /\ warehouse = <<>>
    /\ callLog = <<>>
    /\ progressLog = <<>>
    /\ startResponse = <<>>
    /\ prevEnd = "none"
    /\ prevEmpty = FALSE
    /\ lost = {}
    /\ sanPc = "ready"
    /\ sanIn \in SanInputs
    /\ sanOut = [raised |-> FALSE, value |-> <<>>]

SanApply ==
    /\ sanPc = "ready"
    /\ sanOut' = remove_tags_from_str(sanIn)
    /\ sanPc' = "returned"
    /\ UNCHANGED <<mainVars, sanIn>>

SanNext == SanApply

SanSpec == SanInit /\ [][SanNext]_vars

---------------------------------------------------------------------------
(* Properties *)

Rows == 0..(Len(df.rows) - 1)

Calls == 1..Len(callLog)

Called == {callLog[k].row : k \in Calls}

Failed == {k \in Calls : callLog[k].status = "failed"}

\* This step sends row r to the LLM.
SentNow(r) ==
    /\ Len(callLog') = Len(callLog) + 1
    /\ callLog'[Len(callLog')].row = r

\* C1: on the same session table, over any sequence of runs of the row
\* loop, a row whose Response is non-empty ("NA" included) is not sent to
\* the LLM and its Response does not change.
C1_CompletedRowsAreFinal ==
    [][ (df.hasResponse /\ df'.hasResponse) =>
          \A r \in Rows :
             df.Response[r + 1] # "" =>
                /\ df'.Response[r + 1] = df.Response[r + 1]
                /\ ~SentNow(r) ]_vars

\* A later run of the loop has passed over a row that holds the sentinel.
C1_Witness ==
    /\ pc = "done"
    /\ prevEnd # "none"
    /\ \E r \in Rows : startResponse[r + 1] = "NA" /\ df.Response[r + 1] = "NA"

\* C2: in a run that went through a table whose rows all started empty and
\* in which the LLM failed for exactly one row, that row holds "NA", every
\* other row holds the non-sentinel text returned for it and the LLM was
\* invoked once per row; and an abort of the loop is never the consequence
\* of a failed LLM call (it is an exception of todo_row before the call).
C2_OneFailureIsLocal ==
    /\ (pc = "done" /\ df.hasResponse
        /\ (\A r \in Rows : startResponse[r + 1] = "")
        /\ Cardinality(Failed) = 1)
       => /\ Len(callLog) = Len(df.rows)
          /\ \A k \in Calls :
                /\ callLog[k].row = k - 1
                /\ IF k \in Failed
                   THEN df.Response[k] = "NA"
                   ELSE /\ callLog[k].status = "ok"
                        /\ df.Response[k] = callLog[k].text
                        /\ df.Response[k] # "NA"
    /\ (pc = "aborted" /\ df.hasResponse)
       => /\ todo_row(df.rows[index + 1]).raised
          /\ \A k \in Calls : callLog[k].status # "pending"

\* The LLM failed for the first of at least two rows and answered the rest.
C2_Witness ==
    /\ pc = "done"
    /\ Len(df.rows) >= 2
    /\ \A r \in Rows : startResponse[r + 1] = ""
    /\ Failed = {1}
    /\ \A r \in Rows : df.Response[r + 1] # ""

\* C3: an exception raised while a row is processed is caught at that row:
\* a run that was not stopped from outside gives every row its progress
\* notification, and sends every row that started empty and whose prompt
\* can be built.
C3_RowFailureIsLocal ==
    (pc \in {"done", "aborted"} /\ df.hasResponse)
       => /\ Len(progressLog) = Len(df.rows)
          /\ \A r \in Rows :
                (startResponse[r + 1] = "" /\ ~todo_row(df.rows[r + 1]).raised)
                   => r \in Called

\* C4: a run of the loop that follows a run cut short (stopped, or aborted
\* by a row's failure) and that gets no empty text from the LLM sends only
\* rows that were still empty, leaves the completed rows as they were and
\* ends with every row holding a non-empty Response.
C4_ResumeCompletes ==
    (prevEnd \in {"stopped", "aborted"} /\ pc \in {"done", "aborted"}
     /\ df.hasResponse /\ ~GotEmptyText)
       => /\ \A k \in Calls : startResponse[callLog[k].row + 1] = ""
          /\ \A r \in Rows :
                startResponse[r + 1] # "" => df.Response[r + 1] = startResponse[r + 1]
          /\ \A r \in Rows : df.Response[r + 1] # ""

\* C5 as stated: after a complete run, whatever the LLM returned in it, a
\* second run makes no LLM invocation.
C5_SecondRunSilent ==
    prevEnd = "done" => callLog = <<>>

\* C5 amended: after a complete run in which every text the LLM returned
\* was non-empty (or the call failed), a second run makes no LLM
\* invocation.
C5_SecondRunSilentIfNonEmpty ==
    (prevEnd = "done" /\ ~prevEmpty) => callLog = <<>>

\* A second run has gone through a table of at least two rows, one of them
\* holding the sentinel and one a returned text.
C5_Witness ==
    /\ prevEnd = "done"
    /\ ~prevEmpty
    /\ pc = "done"
    /\ \E r, q \in Rows : df.Response[r + 1] = "NA" /\ df.Response[q + 1] = "S1"

\* C6: in a complete run the LLM is invoked exactly for the rows that were
\* empty when the run began, once each and in table order, with the prompt
\* built from that row; what it returned is in that row's Response; the
\* rows that began non-empty hold what they held.
C6_OneCallPerEmptyRow ==
    (pc = "done" /\ df.hasResponse)
       => /\ Called = {r \in Rows : startResponse[r + 1] = ""}
          /\ \A k, l \in Calls : k < l => callLog[k].row < callLog[l].row
          /\ \A k \in Calls :
                /\ callLog[k].prompt = todo_row(df.rows[callLog[k].row + 1]).prompt
                /\ callLog[k].status \in {"ok", "failed"}
                /\ df.Response[callLog[k].row + 1] = callLog[k].text
                /\ callLog[k].status = "failed" => callLog[k].text = "NA"
          /\ \A r \in Rows :
                startResponse[r + 1] # "" => df.Response[r + 1] = startResponse[r + 1]

\* Three rows, the second completed earlier: the LLM was asked for the
\* first, then for the third, and its two texts are where they belong.
C6_Witness ==
    /\ pc = "done"
    /\ Len(df.rows) = 3
    /\ startResponse = <<"", "S2", "">>
    /\ Len(callLog) = 2
    /\ callLog[1].row = 0 /\ callLog[1].text = "S1"
    /\ callLog[2].row = 2 /\ callLog[2].text = "S2"
    /\ callLog[1].prompt # callLog[2].prompt
    /\ df.Response = <<"S1", "S2", "S2">>

\* C7: a full run over N rows emits N notifications, the k-th being (k, N);
\* while row k+1 is being processed exactly the notifications 1..k have
\* been emitted.
C7_ProgressPerRow ==
    /\ (pc = "done" /\ df.hasResponse)
       => /\ Len(progressLog) = Len(df.rows)
          /\ \A k \in 1..Len(progressLog) : progressLog[k] = <<k, Len(df.rows)>>
    /\ pc \in {"loop", "llm"}
       => /\ Len(progressLog) = index
          /\ index < Len(df.rows)
          /\ \A k \in 1..Len(progressLog) : progressLog[k] = <<k, Len(df.rows)>>

\* A full run over at least two rows, one skipped and one summarized.
C7_Witness ==
    /\ pc = "done"
    /\ Len(df.rows) >= 2
    /\ Len(progressLog) = Len(df.rows)
    /\ Called # {}
    /\ Called # Rows

\* C8: step 2 is entered only with a table: step = 2 implies that the table
\* is present; after a failed connection or query the step is 1, there is
\* no table and the row loop has not been entered.
C8_ProcessingHasTable ==
    /\ step \in {1, 2}
    /\ step = 2 => df.present
    /\ step = 1 => ~df.present
    /\ pc = "noload" => (step = 1 /\ ~df.present /\ callLog = <<>> /\ progressLog = <<>>)
    /\ InLoopRun \/ pc = "resp" => step = 2

\* The load failed and the script run ended in step 1.
C8_Witness ==
    /\ pc = "noload"
    /\ step = 1
    /\ Len(warehouse) > 0

\* C9 as stated: after the process was stopped and started again, the rows
\* that were summarized before the stop are not sent to the LLM.
C9_RestartResumes ==
    \A k \in Calls : callLog[k].row \notin lost

\* C9 amended: a run that follows a stop within the same session sends only
\* rows that are still empty; the first run of a started process finds
\* every Response empty (the table is fetched again), so it sends the rows
\* summarized before the stop again.
C9_ResumeWithinSessionOnly ==
    /\ (prevEnd = "stopped" /\ InLoopRun /\ df.hasResponse)
       => \A k \in Calls : startResponse[callLog[k].row + 1] = ""
    /\ (prevEnd = "none" /\ InLoopRun /\ df.hasResponse)
       => \A r \in Rows : startResponse[r + 1] = ""
    /\ (lost # {} /\ pc = "done")
       => \A r \in lost : ~todo_row(df.rows[r + 1]).raised => r \in Called

\* After a restart a row summarized before the stop was sent again.
C9_Witness ==
    /\ lost # {}
    /\ pc = "done"
    /\ \E k \in Calls : callLog[k].row \in lost

\* C10: remove_tags_from_str returns a string for a str, None or NaN, and
\* the empty string for None and NaN.
C10_SanitizerTotal ==
    sanPc = "returned"
       => /\ ~sanOut.raised
          /\ sanIn.kind \in {"None", "NaN"} => sanOut.value = <<>>

=============================================================================
